---- MODULE Spec2Model ----
(***************************************************************************)
(* kodo_python/create_helpers.hpp: registration of the factory and the     *)
(* encoder / decoder type of a coding stack for the four finite fields.    *)
(*                                                                         *)
(* The host registry is a sequence of bindings in insertion order.  One    *)
(* invocation of create_encoder / create_decoder is a run of registrar     *)
(* calls; `pos` is the number of calls of the running invocation that have *)
(* returned.  A registrar call that throws unwinds the whole invocation,   *)
(* because no function of the header catches anything.                     *)
(***************************************************************************)
EXTENDS Naturals, Sequences, FiniteSets, TLC

\* ---- bounds ----
MaxInvocations == 3
MaxHostRegs == 1

\* ---- template arguments and call arguments used by the callers ----
Coders == {"kodo::full_rlnc", "kodo::on_the_fly"}
Stacks == {"full_rlnc", "on_the_fly"}
Roles == {"encoder", "decoder"}
Fields == {"fifi::binary", "fifi::binary4", "fifi::binary8", "fifi::binary16"}

\* meta::typelist<kodo::enable_trace>
TraceTag == <<"kodo::enable_trace">>

\* resolve_field_name<Field>(): the textual tag of a field type
resolve_field_name(field) ==
    CASE field = "fifi::binary" -> "binary"
      [] field = "fifi::binary4" -> "binary4"
      [] field = "fifi::binary8" -> "binary8"
      [] field = "fifi::binary16" -> "binary16"

\* the name a binding is registered under
binding_name(stack, field, tag) ==
    stack \o "_" \o resolve_field_name(field) \o "_" \o tag

\* names other code of the module may hold in the same host registry
HostNames ==
    { "version",
      binding_name("full_rlnc", "fifi::binary", "encoder"),
      binding_name("full_rlnc", "fifi::binary8", "factory"),
      binding_name("on_the_fly", "fifi::binary16", "decoder") }

Names(reg) == {reg[i].name : i \in 1..Len(reg)}

\* the host's "register native type under name": fails on a taken name and
\* then leaves the registry alone
Register(reg, b) ==
    IF b.name \in Names(reg)
    THEN [ok |-> FALSE, reg |-> reg, name |-> b.name]
    ELSE [ok |-> TRUE, reg |-> Append(reg, b), name |-> b.name]

Binding(coder, field, caps, stack, kind) ==
    [name |-> binding_name(stack, field, kind), kind |-> kind,
     coder |-> coder, field |-> field, caps |-> caps]

\* factory<Coder, Field, TraceTag>(stack)
factory(reg, coder, field, caps, stack) ==
    Register(reg, Binding(coder, field, caps, stack, "factory"))

\* encoder<Coder, Field, TraceTag>(stack)
encoder(reg, coder, field, caps, stack) ==
    Register(reg, Binding(coder, field, caps, stack, "encoder"))

\* decoder<Coder, Field, TraceTag>(stack)
decoder(reg, coder, field, caps, stack) ==
    Register(reg, Binding(coder, field, caps, stack, "decoder"))

VARIABLES
    registry,   \* the host registry, in insertion order
    status,     \* "idle", "running", "done" (returned) or "failed" (threw)
    cur,        \* the running (or last) invocation: coder, stack, role
    pos,        \* registrar calls of the invocation that have returned
    attempts,   \* registrar calls of the invocation that were made
    pre,        \* the registry when the invocation started
    failedName, \* the name whose registration threw, "" if none
    log,        \* the finished invocations, oldest first
    hostRegs    \* number of bindings registered by other code

vars == <<registry, status, cur, pos, attempts, pre, failedName, log, hostRegs>>

NoInvocation == [coder |-> "", stack |-> "", role |-> ""]

Init ==
    /\ registry = <<>>
    /\ status = "idle"
    /\ cur = NoInvocation
    /\ pos = 0
    /\ attempts = 0
    /\ pre = <<>>
    /\ failedName = ""
    /\ log = <<>>
    /\ hostRegs = 0

LogEntry(ok, k, reg) ==
    [coder |-> cur.coder, stack |-> cur.stack, role |-> cur.role,
     ok |-> ok, k |-> k, pre |-> pre, post |-> reg]

\* the four instantiations, in statement order
FieldOrderDup ==
    <<"fifi::binary", "fifi::binary4", "fifi::binary8", "fifi::binary8">>

FieldOrderSwapped ==
    <<"fifi::binary", "fifi::binary8", "fifi::binary4", "fifi::binary16">>

FieldOrderShort ==
    <<"fifi::binary", "fifi::binary4", "fifi::binary8">>

FieldOrder ==
    <<"fifi::binary", "fifi::binary4", "fifi::binary8", "fifi::binary16">>

\* A call statement in a function without try/catch: when the callee returns
\* the next statement runs, when it throws the invocation is unwound.
CallSwallow(res) ==
    /\ registry' = res.reg
    /\ attempts' = attempts + 1
    /\ pos' = pos + 1
    /\ UNCHANGED <<status, failedName, log>>

CallRollback(res) ==
    /\ attempts' = attempts + 1
    /\ IF res.ok
       THEN /\ registry' = res.reg
            /\ pos' = pos + 1
            /\ UNCHANGED <<status, failedName, log>>
       ELSE /\ registry' = pre
            /\ status' = "failed"
            /\ failedName' = res.name
            /\ log' = Append(log, LogEntry(FALSE, attempts + 1, pre))
            /\ UNCHANGED pos

Call(res) ==
    /\ registry' = res.reg
    /\ attempts' = attempts + 1
    /\ IF res.ok
       THEN /\ pos' = pos + 1
            /\ UNCHANGED <<status, failedName, log>>
       ELSE /\ status' = "failed"
            /\ failedName' = res.name
            /\ log' = Append(log, LogEntry(FALSE, attempts + 1, res.reg))
            /\ UNCHANGED pos

\* create_factory_and_encoder<Coder, Field>(stack)
create_factory_and_encoder_rolefirst(coder, field, stack) ==
    \/ /\ pos % 2 = 0
       /\ Call(encoder(registry, coder, field, TraceTag, stack))
    \/ /\ pos % 2 = 1
       /\ Call(factory(registry, coder, field, TraceTag, stack))

create_factory_and_encoder(coder, field, stack) ==
    \/ /\ pos % 2 = 0
       /\ Call(factory(registry, coder, field, TraceTag, stack))
    \/ /\ pos % 2 = 1
       /\ Call(encoder(registry, coder, field, TraceTag, stack))

\* create_factory_and_decoder<Coder, Field>(stack)
create_factory_and_decoder_rolefirst(coder, field, stack) ==
    \/ /\ pos % 2 = 0
       /\ Call(decoder(registry, coder, field, TraceTag, stack))
    \/ /\ pos % 2 = 1
       /\ Call(factory(registry, coder, field, TraceTag, stack))

create_factory_and_decoder_fixedstack(coder, field, stack) ==
    \/ /\ pos % 2 = 0
       /\ Call(factory(registry, coder, field, TraceTag, "full_rlnc"))
    \/ /\ pos % 2 = 1
       /\ Call(decoder(registry, coder, field, TraceTag, "full_rlnc"))

create_factory_and_decoder(coder, field, stack) ==
    \/ /\ pos % 2 = 0
       /\ Call(factory(registry, coder, field, TraceTag, stack))
    \/ /\ pos % 2 = 1
       /\ Call(decoder(registry, coder, field, TraceTag, stack))

\* entry into a driver
Enter(coder, stack, role) ==
    /\ status # "running"
    /\ Len(log) < MaxInvocations
    /\ status' = "running"
    /\ cur' = [coder |-> coder, stack |-> stack, role |-> role]
    /\ pos' = 0
    /\ attempts' = 0
    /\ pre' = registry
    /\ failedName' = ""
    /\ UNCHANGED <<registry, log, hostRegs>>

\* the end of a driver's body is reached
Return ==
    /\ pos = 2 * Len(FieldOrder)
    /\ status' = "done"
    /\ log' = Append(log, LogEntry(TRUE, 0, registry))
    /\ UNCHANGED <<registry, cur, pos, attempts, pre, failedName, hostRegs>>

\* create_encoder<Coder>(stack): called
call_create_encoder ==
    \E coder \in Coders, stack \in Stacks : Enter(coder, stack, "encoder")

\* create_encoder<Coder>(stack): the body, one registrar call at a time
create_encoder ==
    /\ status = "running"
    /\ cur.role = "encoder"
    /\ \/ /\ \E i \in 1..Len(FieldOrder) :
                /\ pos \div 2 = i - 1
                /\ create_factory_and_encoder(cur.coder, FieldOrder[i], cur.stack)
          /\ UNCHANGED <<cur, pre, hostRegs>>
       \/ Return

\* create_decoder<Coder>(stack): called
call_create_decoder ==
    \E coder \in Coders, stack \in Stacks : Enter(coder, stack, "decoder")

\* create_decoder<Coder>(stack): the body, one registrar call at a time
create_decoder ==
    /\ status = "running"
    /\ cur.role = "decoder"
    /\ \/ /\ \E i \in 1..Len(FieldOrder) :
                /\ pos \div 2 = i - 1
                /\ create_factory_and_decoder(cur.coder, FieldOrder[i], cur.stack)
          /\ UNCHANGED <<cur, pre, hostRegs>>
       \/ Return

\* other code of the module registers a type of its own in the host registry
HostRegister ==
    /\ status # "running"
    /\ hostRegs < MaxHostRegs
    /\ \E n \in HostNames :
          LET res == Register(registry,
                        [name |-> n, kind |-> "other", coder |-> "",
                         field |-> "", caps |-> <<>>])
          IN /\ res.ok
             /\ registry' = res.reg
    /\ hostRegs' = hostRegs + 1
    /\ status' = "idle"
    /\ UNCHANGED <<cur, pos, attempts, pre, failedName, log>>

Next ==
    \/ call_create_encoder
    \/ create_encoder
    \/ call_create_decoder
    \/ create_decoder
    \/ HostRegister

Spec == Init /\ [][Next]_vars

\* ---------------------------------------------------------------------
\* Properties
\* ---------------------------------------------------------------------

Final == status \in {"done", "failed"}

\* the bindings the invocation has added to the registry
Added == SubSeq(registry, Len(pre) + 1, Len(registry))

\* the invocations that finished before the running (or last) one started
Earlier == IF status = "running" THEN log ELSE SubSeq(log, 1, Len(log) - 1)

Opposite(role) == IF role = "encoder" THEN "decoder" ELSE "encoder"

\* the eight names of an invocation with stack S and role R, written out
ExpectedNames(S, R) ==
    << S \o "_binary_factory",   S \o "_binary_" \o R,
       S \o "_binary4_factory",  S \o "_binary4_" \o R,
       S \o "_binary8_factory",  S \o "_binary8_" \o R,
       S \o "_binary16_factory", S \o "_binary16_" \o R >>

Count(reg, kind) == Cardinality({i \in 1..Len(reg) : reg[i].kind = kind})

\* C1: an invocation that completes on an empty registry leaves exactly 8
\* bindings: 4 factories and 4 bindings of the requested role, one pair per
\* field of {binary, binary4, binary8, binary16}, nothing of the opposite
\* role and nothing else.
C1_EightBindings ==
    (status = "done" /\ pre = <<>>) =>
        /\ Len(registry) = 8
        /\ Count(registry, "factory") = 4
        /\ Count(registry, cur.role) = 4
        /\ Count(registry, Opposite(cur.role)) = 0
        /\ \A i \in 1..Len(registry) :
              /\ registry[i].kind \in {"factory", cur.role}
              /\ registry[i].field \in Fields
              /\ registry[i].coder = cur.coder
        /\ \A f \in Fields : \A kind \in {"factory", cur.role} :
              Cardinality({i \in 1..Len(registry) :
                  registry[i].field = f /\ registry[i].kind = kind}) = 1

C1_Witness == status = "done" /\ pre = <<>> /\ cur.role = "decoder"

\* C2: in every reachable state every encoder or decoder binding of the
\* registry has the factory binding of the same (Coder, Field) pair at a
\* strictly earlier position of the registry.
C2_FactoryBeforeRole ==
    \A j \in 1..Len(registry) :
        registry[j].kind \in Roles =>
            \E i \in 1..(j - 1) :
                /\ registry[i].kind = "factory"
                /\ registry[i].coder = registry[j].coder
                /\ registry[i].field = registry[j].field
                /\ registry[i].caps = registry[j].caps

C2_Witness ==
    /\ status = "running"
    /\ pos = 2
    /\ Len(pre) > 0
    /\ registry[Len(registry)].kind \in Roles

\* C3: a successful invocation with stack S and role R makes exactly eight
\* registrar calls and appends, in this order, S_binary_factory, S_binary_R,
\* S_binary4_factory, S_binary4_R, S_binary8_factory, S_binary8_R,
\* S_binary16_factory, S_binary16_R; for "full_rlnc" and encoder these are
\* the eight names of the concrete scenario.
C3_InsertionOrder ==
    status = "done" =>
        /\ attempts = 8
        /\ Len(Added) = 8
        /\ [i \in 1..8 |-> Added[i].name] = ExpectedNames(cur.stack, cur.role)
        /\ (cur.stack = "full_rlnc" /\ cur.role = "encoder") =>
              [i \in 1..8 |-> Added[i].name] =
                  << "full_rlnc_binary_factory", "full_rlnc_binary_encoder",
                     "full_rlnc_binary4_factory", "full_rlnc_binary4_encoder",
                     "full_rlnc_binary8_factory", "full_rlnc_binary8_encoder",
                     "full_rlnc_binary16_factory", "full_rlnc_binary16_encoder" >>

C3_Witness ==
    status = "done" /\ cur.stack = "full_rlnc" /\ cur.role = "encoder"

\* C4: an invocation for the same coder, role and stack as an earlier
\* successful one fails on its first registrar call, the binary-field
\* factory, and leaves the registry as it found it.
SameAsEarlier ==
    \E i \in 1..Len(Earlier) :
        /\ Earlier[i].ok
        /\ Earlier[i].coder = cur.coder
        /\ Earlier[i].stack = cur.stack
        /\ Earlier[i].role = cur.role

C4_SecondPassFails ==
    (status # "idle" /\ SameAsEarlier) =>
        /\ status # "done"
        /\ pos = 0
        /\ registry = pre
        /\ status = "failed" =>
              /\ attempts = 1
              /\ failedName = cur.stack \o "_binary_factory"

C4_Witness == status = "failed" /\ SameAsEarlier /\ hostRegs = 0

\* C5: the names one invocation derives are pairwise distinct: an invocation
\* never collides with a name it registered itself, so on an empty registry
\* it never fails, and a completed invocation has added 8 different names.
C5_NamesDistinct ==
    /\ status = "failed" => failedName \in Names(pre)
    /\ (status # "idle" /\ pre = <<>>) => status # "failed"
    /\ status = "done" => Cardinality(Names(Added)) = 8

C5_Witness ==
    status = "done" /\ pre = <<>> /\ cur.role = "encoder" /\ cur.stack = "on_the_fly"

\* C6: two invocations for different coder templates with different stack
\* identifiers derive disjoint name sets: run one after the other on the
\* same registry, in either order, both succeed and the registry holds all
\* 16 bindings.
NameSet(e) == Names(SubSeq(e.post, Len(e.pre) + 1, Len(e.post)))

C6_DisjointStacks ==
    (/\ hostRegs = 0
     /\ Len(log) >= 2
     /\ log[1].stack # log[2].stack
     /\ log[1].coder # log[2].coder) =>
        /\ log[1].ok /\ log[2].ok
        /\ NameSet(log[1]) \cap NameSet(log[2]) = {}
        /\ Len(log[2].post) = 16
        /\ Cardinality(Names(log[2].post)) = 16
        /\ Names(log[2].post) = NameSet(log[1]) \cup NameSet(log[2])

C6_Witness ==
    /\ hostRegs = 0
    /\ Len(log) = 2
    /\ log[1].stack # log[2].stack
    /\ log[1].coder # log[2].coder
    /\ log[1].role = "decoder"
    /\ log[2].role = "encoder"
    /\ Len(registry) = 16

\* C7: when the k-th registrar call of an invocation fails on a name already
\* in the registry, the invocation ends there: no later call is made and the
\* k-1 bindings already made stay, so the registry is the one the invocation
\* started with followed by exactly those k-1 bindings.
C7_NoRollback ==
    status = "failed" =>
        /\ attempts = pos + 1
        /\ log[Len(log)].k = attempts
        /\ failedName = ExpectedNames(cur.stack, cur.role)[attempts]
        /\ failedName \in Names(pre)
        /\ Len(registry) = Len(pre) + pos
        /\ SubSeq(registry, 1, Len(pre)) = pre
        /\ \A i \in 1..pos :
              Added[i].name = ExpectedNames(cur.stack, cur.role)[i]

C7_Witness == status = "failed" /\ attempts = 8 /\ Len(Added) = 7

\* C8: in every final state of an invocation, completed or failed, no
\* (Coder, Field) pair is partial: none has a factory without a role binding
\* and none has a role binding without a factory.
HasKind(coder, field, kinds) ==
    \E i \in 1..Len(registry) :
        /\ registry[i].coder = coder
        /\ registry[i].field = field
        /\ registry[i].kind \in kinds

C8_NoPartialPair ==
    Final =>
        \A coder \in Coders, field \in Fields :
            HasKind(coder, field, {"factory"}) <=> HasKind(coder, field, Roles)

\* C9: a (Coder, Field) pair only moves forward along unregistered ->
\* factory registered -> factory+role registered, because no step removes a
\* binding from the registry.
PairState(reg, coder, field) ==
    LET has(kinds) == \E i \in 1..Len(reg) :
                         /\ reg[i].coder = coder
                         /\ reg[i].field = field
                         /\ reg[i].kind \in kinds
    IN IF has({"factory"}) THEN (IF has(Roles) THEN 2 ELSE 1) ELSE 0

C9_Monotone ==
    [][ /\ Len(registry') >= Len(registry)
        /\ SubSeq(registry', 1, Len(registry)) = registry
        /\ \A coder \in Coders, field \in Fields :
              PairState(registry', coder, field) >= PairState(registry, coder, field)
      ]_vars

C9_Witness ==
    /\ status = "failed"
    /\ pos >= 2
    /\ \E coder \in Coders :
          /\ PairState(registry, coder, "fifi::binary") = 2
          /\ PairState(registry, coder, "fifi::binary16") = 0

\* C10: the factory name does not depend on the role, so a driver invoked
\* with the stack identifier of an earlier successful invocation of the
\* other role fails on its first registrar call, the binary-field factory,
\* and registers nothing; two successful invocations of different roles
\* have different stack identifiers.
OtherRoleEarlier ==
    \E i \in 1..Len(Earlier) :
        /\ Earlier[i].ok
        /\ Earlier[i].stack = cur.stack
        /\ Earlier[i].role = Opposite(cur.role)

C10_SharedFactoryName ==
    /\ (status # "idle" /\ OtherRoleEarlier) =>
          /\ status # "done"
          /\ pos = 0
          /\ registry = pre
          /\ Count(Added, cur.role) = 0
          /\ status = "failed" =>
                /\ attempts = 1
                /\ failedName = cur.stack \o "_binary_factory"
    /\ \A i, j \in 1..Len(log) :
          (log[i].ok /\ log[j].ok /\ log[i].role # log[j].role) =>
              log[i].stack # log[j].stack

C10_Witness ==
    /\ status = "failed"
    /\ cur.role = "decoder"
    /\ OtherRoleEarlier
    /\ ~SameAsEarlier

====
